---- MODULE Spec2Model ----
(***************************************************************************)
(* StreamEscrow (streampay-soroban/src/lib.rs): one contract instance is   *)
(* one milestone escrow.  The persistent storage keys are the variables,   *)
(* every public contract function is one action, and a call that returns   *)
(* an error or aborts leaves storage and token balances as they were.      *)
(***************************************************************************)
EXTENDS Integers, Sequences, FiniteSets, TLC

VARIABLES
    initialized,      \* DataKey::Initialized is present
    status,           \* DataKey::Status ("Unset" before initialize)
    total_amount,     \* DataKey::TotalAmount
    released_amount,  \* DataKey::ReleasedAmount
    dispute_window,   \* DataKey::DisputeWindow
    milestones,       \* DataKey::Milestones, a sequence of Milestone records
    balance,          \* token balances of the four addresses
    now,              \* env.ledger().timestamp()
    cancel_refund,    \* history: the amount carried by the "cancelled" event
    overflow_checks,  \* the build: does integer overflow panic (else it wraps)
    last              \* the last call that succeeded: what the ledger recorded of it

vars == << initialized, status, total_amount, released_amount, dispute_window,
           milestones, balance, now, cancel_refund, overflow_checks, last >>

(***************************************************************************)
(* Bounds of the model.                                                    *)
(***************************************************************************)
MaxTime == 2        \* the clock runs over 0..MaxTime
U64Max == 3         \* scaled-down largest u64 (checked_add fails above it)
MaxPreset == 1      \* how many input milestones may arrive not Pending
I128Max == 16777215 \* scaled-down largest i128 (2^24 - 1)

(***************************************************************************)
(* Addresses.  client, developer and backend are the three arguments of    *)
(* initialize; the contract is env.current_contract_address().             *)
(***************************************************************************)
Client == "client"
Developer == "developer"
Backend == "backend"
Contract == "contract"
Addresses == {Client, Developer, Backend, Contract}
Callers == {Client, Developer, Backend}

\* Option<T>: None is the empty sequence, Some(x) the one-element sequence.
None == << >>
\* An option that loses its value.
Some_dropped(x) == None

Some(x) == << x >>

EscrowStatuses == {"Active", "Completed", "Cancelled"}
MilestoneStatuses == {"Pending", "PendingRelease", "Released", "Disputed", "Refunded"}

\* types.rs Milestone, without title and trigger_keyword (stored, never read).
Milestone(b, s, u, c) == [bps |-> b, status |-> s, pr_url |-> u, completed_at |-> c]

BPS_DENOMINATOR == 10000
MAX_MILESTONES == 10
FEE_DIVISOR == 100
ClientMint == 1000

RECURSIVE SumBps(_)
SumBps(ms) == IF ms = << >> THEN 0 ELSE ms[1].bps + SumBps(Tail(ms))

(***************************************************************************)
(* The environment a call runs in: the storage entries, the token          *)
(* balances and the ledger clock.  A handler is a function from the        *)
(* environment and its arguments to an outcome: the result code, the       *)
(* environment it leaves, and the transfers and events it produced.        *)
(***************************************************************************)
\* `rejecting` is the part of the token contract's state the escrow cannot
\* see: the addresses whose account refuses an incoming transfer.
CurRejecting(r) ==
    [initialized |-> initialized, status |-> status,
     total_amount |-> total_amount, released_amount |-> released_amount,
     dispute_window |-> dispute_window, milestones |-> milestones,
     balance |-> balance, now |-> now, rejecting |-> r,
     overflow_checks |-> overflow_checks]

\* The environment with a token that accepts every transfer it has funds for.
Cur == CurRejecting({})

Ok(e) == [result |-> "Ok", env |-> e, transfers |-> << >>, events |-> << >>]
Err(e, code) == [result |-> code, env |-> e, transfers |-> << >>, events |-> << >>]

\* An event: its topic symbol, the milestone index topic (-1 when the event
\* has none), the amount in its payload and the auto_released flag.
Event(name, index, amount, auto) ==
    [name |-> name, index |-> index, amount |-> amount, auto |-> auto]

\* Rust's integer division truncates toward zero.
TruncDiv(a, b) == IF a >= 0 THEN a \div b ELSE -((-a) \div b)

\* u64::checked_add: None on overflow.
checked_add(a, b) == IF a + b > U64Max THEN None ELSE Some(a + b)

\* An authorization check that lets every caller through.
require_auth_anyone(caller, addr) == TRUE

\* Address::require_auth: the call aborts unless the address authorized it.
require_auth(caller, addr) == caller = addr

\* token::Client::transfer: aborts the call on a negative amount, on an
\* insufficient balance or when the token refuses the recipient, otherwise
\* moves the amount.
transfer(e, from, to, amount) ==
    IF amount < 0 \/ e.balance[from] < amount \/ to \in e.rejecting
    THEN Err(e, "TransferFailed")
    ELSE [result |-> "Ok",
          env |-> [e EXCEPT !.balance =
                       [a \in Addresses |->
                           e.balance[a] - (IF a = from THEN amount ELSE 0)
                                        + (IF a = to THEN amount ELSE 0)]],
          transfers |-> << [from |-> from, to |-> to, amount |-> amount] >>,
          events |-> << >>]

\* Vec::get(index) is Some exactly for index < len.
InRange(ms, index) == index >= 0 /\ index < Len(ms)
Get(ms, index) == ms[index + 1]
\* A status update that is never stored.
SetStatus_dropped(ms, index, s) == ms

SetStatus(ms, index, s) == [ms EXCEPT ![index + 1].status = s]

\* An initialization guard that reads a key nobody writes.
is_initialized_never(e) == FALSE

\* Storage::is_initialized
is_initialized(e) == e.initialized

\* A status check that only asks whether the escrow exists.
assert_active_any(e) == IF ~e.initialized THEN "NotInitialized" ELSE "Ok"

\* A status match that lets a Completed escrow through.
assert_active_completed_ok(e) ==
    IF ~e.initialized THEN "NotInitialized"
    ELSE IF e.status \in {"Active", "Completed"} THEN "Ok"
    ELSE "EscrowCancelled"

\* A status match that lets a Cancelled escrow through.
assert_active_cancelled_ok(e) ==
    IF ~e.initialized THEN "NotInitialized"
    ELSE IF e.status \in {"Active", "Cancelled"} THEN "Ok"
    ELSE "EscrowCompleted"

assert_active(e) ==
    IF ~e.initialized THEN "NotInitialized"
    ELSE IF e.status = "Active" THEN "Ok"
    ELSE IF e.status = "Completed" THEN "EscrowCompleted"
    ELSE "EscrowCancelled"

\* i128 `*`: the product leaves the range of the type.
mul_overflows(a, b) == a * b > I128Max \/ a * b < -I128Max - 1

\* i128 `*` in a build without overflow checks: the product modulo the width
\* of the type, in two's complement.
wrapping_mul(a, b) ==
    ((a * b + (I128Max + 1)) % (2 * (I128Max + 1))) - (I128Max + 1)

\* A split that divides before it multiplies.
milestone_amount_divide_first(total, bps) == TruncDiv(total, BPS_DENOMINATOR) * bps

milestone_amount(total, bps) == TruncDiv(wrapping_mul(total, bps), BPS_DENOMINATOR)

IsTerminal(m) == m.status \in {"Released", "Refunded"}

all_done(ms) == \A i \in 1..Len(ms) : IsTerminal(ms[i])

check_completion(e) ==
    IF all_done(e.milestones)
    THEN [result |-> "Ok", env |-> [e EXCEPT !.status = "Completed"],
          transfers |-> << >>,
          events |-> << Event("done", -1, 0, FALSE) >>]
    ELSE Ok(e)

\* A release guard that forgets the milestone may already be Released.
release_guard_or_released(m) == m.status \in {"PendingRelease", "Released"}

\* A release with no guard at all.
release_guard_any(m) == TRUE

\* A release guard that also pays a milestone nobody marked complete.
release_guard_or_pending(m) == m.status \in {"Pending", "PendingRelease"}

\* A release guard that also pays a Disputed milestone.
release_guard_or_disputed(m) == m.status \in {"PendingRelease", "Disputed"}

\* The guard of release_milestone: only a PendingRelease milestone is paid.
release_guard(m) == m.status = "PendingRelease"

\* A payout that is never booked.
credit_nothing(released, amount) == released

\* A release that books the amount twice.
credit_twice(released, amount) == released + amount + amount

\* A release that books only what the developer received.
credit_dev_only(released, amount) ==
    released + (amount - TruncDiv(amount, FEE_DIVISOR))

\* set_released_amount(released + amount), in release and in refund.
credit(released, amount) == released + amount

release_milestone(e, milestone_index, auto) ==
    IF ~InRange(e.milestones, milestone_index) THEN Err(e, "MilestoneNotFound")
    ELSE
    LET milestone == Get(e.milestones, milestone_index)
        release_amount == milestone_amount(e.total_amount, milestone.bps)
        fee_amount == TruncDiv(release_amount, FEE_DIVISOR)
        dev_amount == release_amount - fee_amount
        t1 == transfer(e, Contract, Developer, dev_amount)
        t2 == transfer(t1.env, Contract, Backend, fee_amount)
        e3 == [t2.env EXCEPT
                 !.released_amount = credit(@, release_amount),
                 !.milestones = SetStatus(@, milestone_index, "Released")]
        cc == check_completion(e3)
    IN  IF ~release_guard(milestone) THEN Err(e, "MilestoneNotPendingRelease")
        ELSE IF e.overflow_checks /\ mul_overflows(e.total_amount, milestone.bps)
             THEN Err(e, "Panic")
        ELSE IF t1.result # "Ok" THEN t1
        ELSE IF t2.result # "Ok" THEN t2
        ELSE [result |-> "Ok", env |-> cc.env,
              transfers |-> t1.transfers \o t2.transfers,
              events |-> << Event("release", milestone_index, dev_amount, auto) >>
                         \o cc.events]

(***************************************************************************)
(* The public contract functions.                                          *)
(***************************************************************************)
initialize(e, caller, total, ms, dispute_window_secs) ==
    IF is_initialized(e) THEN Err(e, "AlreadyInitialized")
    ELSE IF total <= 0 THEN Err(e, "InvalidAmount")
    ELSE IF Len(ms) = 0 THEN Err(e, "NoMilestones")
    ELSE IF Len(ms) > MAX_MILESTONES THEN Err(e, "TooManyMilestones")
    ELSE IF SumBps(ms) # BPS_DENOMINATOR THEN Err(e, "InvalidMilestoneBps")
    ELSE IF ~require_auth(caller, Client) THEN Err(e, "AuthFailed")
    ELSE
    LET t == transfer(e, Client, Contract, total)
    IN  IF t.result # "Ok" THEN t
        ELSE [result |-> "Ok",
              env |-> [t.env EXCEPT !.initialized = TRUE,
                                    !.total_amount = total,
                                    !.released_amount = 0,
                                    !.status = "Active",
                                    !.dispute_window = dispute_window_secs,
                                    !.milestones = ms],
              transfers |-> t.transfers,
              events |-> << Event("init", -1, total, FALSE) >>]

mark_complete(e, caller, milestone_index, pr_url) ==
    IF ~e.initialized THEN Err(e, "NotInitialized")
    ELSE IF ~require_auth(caller, Backend) THEN Err(e, "AuthFailed")
    ELSE IF assert_active(e) # "Ok" THEN Err(e, assert_active(e))
    ELSE IF ~InRange(e.milestones, milestone_index) THEN Err(e, "MilestoneNotFound")
    ELSE
    LET milestone == Get(e.milestones, milestone_index)
        completed_at == e.now
        updated == [milestone EXCEPT !.status = "PendingRelease",
                                     !.pr_url = Some(pr_url),
                                     !.completed_at = Some(completed_at)]
    IN  IF milestone.status # "Pending" THEN Err(e, "MilestoneAlreadyCompleted")
        ELSE [result |-> "Ok",
              env |-> [e EXCEPT !.milestones[milestone_index + 1] = updated],
              transfers |-> << >>,
              events |-> << Event("complete", milestone_index, 0, FALSE) >>]

\* An approve that looks at the escrow status before the caller.
approve_status_first(e, caller, milestone_index) ==
    IF ~e.initialized THEN Err(e, "NotInitialized")
    ELSE IF assert_active(e) # "Ok" THEN Err(e, assert_active(e))
    ELSE IF ~require_auth(caller, Client) THEN Err(e, "AuthFailed")
    ELSE release_milestone(e, milestone_index, FALSE)

approve(e, caller, milestone_index) ==
    IF ~e.initialized THEN Err(e, "NotInitialized")
    ELSE IF ~require_auth(caller, Client) THEN Err(e, "AuthFailed")
    ELSE IF assert_active(e) # "Ok" THEN Err(e, assert_active(e))
    ELSE release_milestone(e, milestone_index, FALSE)

\* A window that is still open at the deadline itself.
window_open_inclusive(t, deadline) == t <= deadline

\* A window that never closes.
window_open_always(t, deadline) == TRUE

\* now < deadline: the dispute window is still open.
window_open(t, deadline) == t < deadline

auto_release(e, caller, milestone_index) ==
    IF assert_active(e) # "Ok" THEN Err(e, assert_active(e))
    ELSE IF ~InRange(e.milestones, milestone_index) THEN Err(e, "MilestoneNotFound")
    ELSE
    LET milestone == Get(e.milestones, milestone_index)
        deadline == checked_add(milestone.completed_at[1], e.dispute_window)
    IN  IF milestone.status # "PendingRelease" THEN Err(e, "MilestoneNotPendingRelease")
        ELSE IF e.dispute_window = 0 THEN Err(e, "ManualApprovalRequired")
        ELSE IF milestone.completed_at = None THEN Err(e, "MilestoneNotCompleted")
        ELSE IF deadline = None THEN Err(e, "Overflow")
        ELSE IF window_open(e.now, deadline[1]) THEN Err(e, "DisputeWindowOpen")
        ELSE release_milestone(e, milestone_index, TRUE)

dispute(e, caller, milestone_index) ==
    IF ~e.initialized THEN Err(e, "NotInitialized")
    ELSE IF ~require_auth(caller, Client) THEN Err(e, "AuthFailed")
    ELSE IF assert_active(e) # "Ok" THEN Err(e, assert_active(e))
    ELSE IF e.dispute_window = 0 THEN Err(e, "NoDisputeWindow")
    ELSE IF ~InRange(e.milestones, milestone_index) THEN Err(e, "MilestoneNotFound")
    ELSE
    LET milestone == Get(e.milestones, milestone_index)
        deadline == checked_add(milestone.completed_at[1], e.dispute_window)
    IN  IF milestone.status # "PendingRelease" THEN Err(e, "MilestoneNotPendingRelease")
        ELSE IF milestone.completed_at = None THEN Err(e, "MilestoneNotCompleted")
        ELSE IF deadline = None THEN Err(e, "Overflow")
        ELSE IF ~window_open(e.now, deadline[1]) THEN Err(e, "DisputeWindowClosed")
        ELSE [result |-> "Ok",
              env |-> [e EXCEPT !.milestones = SetStatus(@, milestone_index, "Disputed")],
              transfers |-> << >>,
              events |-> << Event("dispute", milestone_index, 0, FALSE) >>]

resolve_dispute(e, caller, milestone_index, release_to_developer) ==
    IF ~e.initialized THEN Err(e, "NotInitialized")
    ELSE IF ~require_auth(caller, Backend) THEN Err(e, "AuthFailed")
    ELSE IF assert_active(e) # "Ok" THEN Err(e, assert_active(e))
    ELSE IF ~InRange(e.milestones, milestone_index) THEN Err(e, "MilestoneNotFound")
    ELSE
    LET milestone == Get(e.milestones, milestone_index)
        \* developer wins
        e1 == [e EXCEPT !.milestones = SetStatus(@, milestone_index, "PendingRelease")]
        rel == release_milestone(e1, milestone_index, FALSE)
        \* client wins
        refund_amount == milestone_amount(e.total_amount, milestone.bps)
        t == transfer(e, Contract, Client, refund_amount)
        e2 == [t.env EXCEPT
                 !.milestones = SetStatus(e.milestones, milestone_index, "Refunded"),
                 !.released_amount = credit(@, refund_amount)]
        branch == IF release_to_developer THEN rel
                  ELSE IF e.overflow_checks
                          /\ mul_overflows(e.total_amount, milestone.bps)
                       THEN Err(e, "Panic")
                  ELSE IF t.result # "Ok" THEN t
                  ELSE [result |-> "Ok", env |-> e2, transfers |-> t.transfers,
                        events |-> << Event("resolved", milestone_index,
                                            refund_amount, FALSE) >>]
        cc == check_completion(branch.env)
    IN  IF milestone.status # "Disputed" THEN Err(e, "MilestoneNotDisputed")
        ELSE IF branch.result # "Ok" THEN branch
        ELSE [result |-> "Ok", env |-> cc.env, transfers |-> branch.transfers,
              events |-> branch.events \o cc.events]

\* A limbo test that forgets Disputed.
limbo_pending_release_only(m) == m.status = "PendingRelease"

\* A milestone cancel must wait for: PendingRelease or Disputed.
\* A cancel that is held back by Disputed milestones only.
limbo_disputed_only(m) == m.status = "Disputed"

limbo(m) == m.status \in {"PendingRelease", "Disputed"}

cancel(e, caller) ==
    IF ~e.initialized THEN Err(e, "NotInitialized")
    ELSE IF ~require_auth(caller, Client) THEN Err(e, "AuthFailed")
    ELSE IF assert_active(e) # "Ok" THEN Err(e, assert_active(e))
    ELSE IF \E i \in 1..Len(e.milestones) : limbo(e.milestones[i])
         THEN Err(e, "CannotCancelWithPendingMilestones")
    ELSE
    LET remaining == e.total_amount - e.released_amount
        t == IF remaining > 0 THEN transfer(e, Contract, Client, remaining) ELSE Ok(e)
    IN  IF t.result # "Ok" THEN t
        ELSE [result |-> "Ok",
              env |-> [t.env EXCEPT !.status = "Cancelled"],
              transfers |-> t.transfers,
              events |-> << Event("cancel", -1, remaining, FALSE) >>]

\* Views.
get_balance(e) ==
    << e.total_amount, e.released_amount, e.total_amount - e.released_amount >>

time_until_auto_release(e, milestone_index) ==
    IF ~e.initialized THEN [result |-> "NotInitialized", value |-> 0]
    ELSE IF ~InRange(e.milestones, milestone_index)
         THEN [result |-> "MilestoneNotFound", value |-> 0]
    ELSE
    LET milestone == Get(e.milestones, milestone_index)
        deadline == checked_add(milestone.completed_at[1], e.dispute_window)
    IN  IF milestone.status # "PendingRelease" \/ e.dispute_window = 0
        THEN [result |-> "Ok", value |-> 0]
        ELSE IF milestone.completed_at = None
             THEN [result |-> "MilestoneNotCompleted", value |-> 0]
        ELSE IF deadline = None THEN [result |-> "Overflow", value |-> 0]
        ELSE IF e.now >= deadline[1] THEN [result |-> "Ok", value |-> 0]
        ELSE [result |-> "Ok", value |-> deadline[1] - e.now]

(***************************************************************************)
(* The inputs the calls are tried with.                                    *)
(***************************************************************************)
Totals == {0, 7, ClientMint, 2 * ClientMint}

\* A mint, and totals, whose product with 10000 bps leaves the i128 range:
\* the smaller wraps to a negative amount, the larger to a positive one.
RichMint == 4 * ClientMint

\* A mint that funds the smallest total only.
LiveMint == 7
RichTotals == {2 * ClientMint, RichMint}
Windows == {0, 1, U64Max}
PrUrls == {"pr1"}

Eleven == [i \in 1..(MAX_MILESTONES + 1) |-> IF i = 1 THEN 910 ELSE 909]
BpsLists == { << 10000 >>, << 3333, 6667 >>, << 0, 10000 >>,
              << >>, << 9999 >>, << 6000, 5000 >>, Eleven }

\* initialize stores the Milestone records it is given: their status,
\* pr_url and completed_at are the caller's.
PresetShapes ==
    { [status |-> "PendingRelease", pr_url |-> None, completed_at |-> None],
      [status |-> "PendingRelease", pr_url |-> Some("pr0"), completed_at |-> Some(0)],
      [status |-> "PendingRelease", pr_url |-> Some("pr0"), completed_at |-> Some(1)],
      [status |-> "Released", pr_url |-> None, completed_at |-> None],
      [status |-> "Disputed", pr_url |-> None, completed_at |-> None],
      [status |-> "Refunded", pr_url |-> None, completed_at |-> None],
      [status |-> "Pending", pr_url |-> None, completed_at |-> Some(0)] }

\* The lists that also arrive with milestones that are not Pending.
PresetBpsLists == { << 10000 >>, << 3333, 6667 >> }

AllPending(b) == [i \in 1..Len(b) |-> Milestone(b[i], "Pending", None, None)]

Preset(b) ==
    UNION { { [i \in 1..Len(b) |->
                 IF i \in P
                 THEN Milestone(b[i], sh[i].status, sh[i].pr_url, sh[i].completed_at)
                 ELSE Milestone(b[i], "Pending", None, None)] :
              sh \in [P -> PresetShapes] } :
            P \in { Q \in SUBSET (1..Len(b)) :
                      Cardinality(Q) >= 1 /\ Cardinality(Q) <= MaxPreset } }

PresetInputs == UNION { Preset(b) : b \in PresetBpsLists }

MilestoneInputs == { AllPending(b) : b \in BpsLists } \cup PresetInputs

\* The arguments initialize is tried with: every total with every list of
\* Pending milestones, and the client's whole mint with the lists that hold
\* a milestone that is not Pending.  Once the contract is initialized the
\* call returns before it reads any of them, so a few stand for all.
InitializeArgs ==
    IF initialized
    THEN {0, 7} \X { AllPending(<< 10000 >>), << >> } \X { 1 }
    ELSE IF balance[Client] = RichMint
    THEN RichTotals \X { AllPending(<< 10000 >>), AllPending(<< 3333, 6667 >>) }
            \X Windows
    ELSE (Totals \X { AllPending(b) : b \in BpsLists } \X Windows)
            \cup ({ClientMint} \X PresetInputs \X Windows)

Indexes == 0..Len(milestones)

\* What the token may refuse during one call: nothing, the backend's fee (the
\* second transfer of a release) or a refund to the client.
Rejecting == { {}, {Backend}, {Client} }

(***************************************************************************)
(* The state machine.                                                      *)
(***************************************************************************)
Init ==
    /\ initialized = FALSE
    /\ status = "Unset"
    /\ total_amount = 0
    /\ released_amount = 0
    /\ dispute_window = 0
    /\ milestones = << >>
    /\ balance = [a \in Addresses |-> IF a = Client THEN ClientMint ELSE 0]
    /\ now = 0
    /\ cancel_refund = 0
    /\ overflow_checks = TRUE
    /\ last = [op |-> "none", caller |-> "none", index |-> -1,
               transfers |-> << >>, events |-> << >>]

\* A host that keeps what a failed call wrote.
Invoke_no_rollback(e, out) == out

\* The host runs a call atomically: when it returns an error or aborts,
\* every storage write, transfer and event of the call is discarded.
Invoke(e, out) == IF out.result = "Ok" THEN out ELSE Err(e, out.result)

\* One invocation by `caller`: the ledger takes the outcome of the call.  A
\* failed call leaves the ledger, and so every variable, as it was.
Do(op, caller, index, raw) ==
    LET out == Invoke(Cur, raw)
    IN  /\ initialized' = out.env.initialized
        /\ status' = out.env.status
        /\ total_amount' = out.env.total_amount
        /\ released_amount' = out.env.released_amount
        /\ dispute_window' = out.env.dispute_window
        /\ milestones' = out.env.milestones
        /\ balance' = out.env.balance
        /\ now' = now
        /\ overflow_checks' = overflow_checks
        /\ cancel_refund' = IF op = "cancel" /\ out.result = "Ok"
                            THEN out.events[1].amount ELSE cancel_refund
        /\ last' = IF out.result = "Ok"
                   THEN [op |-> op, caller |-> caller, index |-> index,
                         transfers |-> out.transfers, events |-> out.events]
                   ELSE last

Initialize ==
    \E caller \in Callers, a \in InitializeArgs, r \in Rejecting :
        Do("initialize", caller, -1,
           initialize(CurRejecting(r), caller, a[1], a[2], a[3]))

MarkComplete ==
    \E caller \in Callers, i \in Indexes, url \in PrUrls :
        Do("mark_complete", caller, i, mark_complete(Cur, caller, i, url))

Approve ==
    \E caller \in Callers, i \in Indexes, r \in Rejecting :
        Do("approve", caller, i, approve(CurRejecting(r), caller, i))

AutoRelease ==
    \E caller \in Callers, i \in Indexes, r \in Rejecting :
        Do("auto_release", caller, i, auto_release(CurRejecting(r), caller, i))

Dispute ==
    \E caller \in Callers, i \in Indexes :
        Do("dispute", caller, i, dispute(Cur, caller, i))

ResolveDispute ==
    \E caller \in Callers, i \in Indexes, release_to_developer \in BOOLEAN,
       r \in Rejecting :
        Do("resolve_dispute", caller, i,
           resolve_dispute(CurRejecting(r), caller, i, release_to_developer))

Cancel ==
    \E caller \in Callers, r \in Rejecting :
        Do("cancel", caller, -1, cancel(CurRejecting(r), caller))

\* The ledger clock moves between calls.
AdvanceTime ==
    /\ now < MaxTime
    /\ now' = now + 1
    /\ last' = [op |-> "advance_time", caller |-> "none", index |-> -1,
                transfers |-> << >>, events |-> << >>]
    /\ UNCHANGED << initialized, status, total_amount, released_amount,
                    dispute_window, milestones, balance, cancel_refund,
                    overflow_checks >>

Next ==
    \/ Initialize
    \/ MarkComplete
    \/ Approve
    \/ AutoRelease
    \/ Dispute
    \/ ResolveDispute
    \/ Cancel
    \/ AdvanceTime

Spec == Init /\ [][Next]_vars

(***************************************************************************)
(* The contract under the scheduling a trustless release relies on: the    *)
(* ledger clock keeps moving, and a release through auto_release that      *)
(* stays possible is eventually made by some caller.  A call that fails    *)
(* changes nothing, so only successful releases count as steps.  The       *)
(* client holds just the smallest total, so every escrow here is funded    *)
(* with it.                                                                *)
(***************************************************************************)
InitLive ==
    /\ initialized = FALSE
    /\ status = "Unset"
    /\ total_amount = 0
    /\ released_amount = 0
    /\ dispute_window = 0
    /\ milestones = << >>
    /\ balance = [a \in Addresses |-> IF a = Client THEN LiveMint ELSE 0]
    /\ now = 0
    /\ cancel_refund = 0
    /\ overflow_checks = TRUE
    /\ last = [op |-> "none", caller |-> "none", index |-> -1,
               transfers |-> << >>, events |-> << >>]

\* The steps of Next that change the ledger.  A failed call is a stuttering
\* step, which [][...]_vars admits anyway, so [][NextLive]_vars and
\* [][Next]_vars are the same formula.
NextLive ==
    \/ Initialize /\ vars' # vars
    \/ MarkComplete /\ vars' # vars
    \/ Approve /\ vars' # vars
    \/ AutoRelease /\ vars' # vars
    \/ Dispute /\ vars' # vars
    \/ ResolveDispute /\ vars' # vars
    \/ Cancel /\ vars' # vars
    \/ AdvanceTime

\* Some caller's auto_release of some milestone would succeed now, that is,
\* the step <<AutoRelease>>_vars is enabled.  (A release that succeeds while
\* the token refuses a recipient succeeds as well when it refuses nobody.)
AutoReleaseEnabled ==
    \E caller \in Callers, i \in Indexes :
        auto_release(Cur, caller, i).result = "Ok"

\* WF_vars(AdvanceTime) and WF_vars(AutoRelease), the latter written out by
\* the definition of WF with its enabling condition as a state predicate.
Fairness ==
    /\ WF_vars(AdvanceTime)
    /\ ([]<>~AutoReleaseEnabled \/ []<><<AutoRelease>>_vars)

SpecLive == InitLive /\ [][NextLive]_vars /\ Fairness

(***************************************************************************)
(* The same contract with a client rich enough to fund a total whose       *)
(* split does not fit the integer type, built with or without overflow     *)
(* checks.  (With the client's mint of Spec no product leaves the range,   *)
(* so there the build makes no difference.)                                *)
(***************************************************************************)
InitRich ==
    /\ initialized = FALSE
    /\ status = "Unset"
    /\ total_amount = 0
    /\ released_amount = 0
    /\ dispute_window = 0
    /\ milestones = << >>
    /\ balance = [a \in Addresses |-> IF a = Client THEN RichMint ELSE 0]
    /\ now = 0
    /\ cancel_refund = 0
    /\ overflow_checks \in BOOLEAN
    /\ last = [op |-> "none", caller |-> "none", index |-> -1,
               transfers |-> << >>, events |-> << >>]

SpecRich == InitRich /\ [][Next]_vars

(***************************************************************************)
(* Properties.                                                             *)
(***************************************************************************)
\* The outcome the ledger takes of a call.
Result(raw) == Invoke(Cur, raw)
NoEffect(out) == out.env = Cur /\ out.transfers = << >> /\ out.events = << >>

RECURSIVE SumUnreleased(_, _)
SumUnreleased(ms, total) ==
    IF ms = << >> THEN 0
    ELSE (IF IsTerminal(ms[1]) THEN 0 ELSE milestone_amount(total, ms[1].bps))
         + SumUnreleased(Tail(ms), total)

\* released_amount plus the shares of the milestones not yet Released or Refunded.
Accounted == released_amount + SumUnreleased(milestones, total_amount)

\* C1 as stated: released_amount + the shares of the milestones that are not
\* yet Released or Refunded + the cancel refund equals total_amount, up to a
\* drift of at most n-1 for n milestones.
C1_ConservationAsStated ==
    initialized =>
        /\ Accounted + cancel_refund <= total_amount
        /\ Accounted + cancel_refund >= total_amount - (Len(milestones) - 1)

\* C1 amended: until the escrow is cancelled, released_amount plus the shares
\* of the unresolved milestones never exceeds total_amount and no operation
\* changes it (a release or refund moves exactly one share into
\* released_amount); it is within n-1 of total_amount when initialize was
\* given only Pending milestones.  Once cancelled, released_amount plus the
\* cancel refund is exactly total_amount, the shares of the milestones left
\* Pending not counted.
C1_Conservation ==
    /\ [](initialized =>
            /\ Accounted <= total_amount
            /\ status = "Cancelled" =>
                   released_amount + cancel_refund = total_amount)
    /\ [][initialized => Accounted' = Accounted]_vars
    /\ [][(~initialized /\ initialized'
            /\ \A i \in 1..Len(milestones') : milestones'[i].status = "Pending")
          => /\ Accounted' <= total_amount'
             /\ Accounted' >= total_amount' - (Len(milestones') - 1)]_vars

\* A cancel after one release, with a milestone still Pending.
C1_Witness ==
    /\ status = "Cancelled"
    /\ released_amount > 0
    /\ cancel_refund > 0
    /\ released_amount + cancel_refund = total_amount
    /\ \E i \in 1..Len(milestones) :
          /\ milestones[i].status = "Pending"
          /\ milestone_amount(total_amount, milestones[i].bps) > 0

EscrowErrors == {"EscrowCompleted", "EscrowCancelled"}

\* The five milestone operations aimed at milestone i (1-based) by `caller`.
OnMilestone(caller, i) ==
    [mark_complete |-> Result(mark_complete(Cur, caller, i - 1, "pr1")),
     approve |-> Result(approve(Cur, caller, i - 1)),
     auto_release |-> Result(auto_release(Cur, caller, i - 1)),
     dispute |-> Result(dispute(Cur, caller, i - 1)),
     resolve_true |-> Result(resolve_dispute(Cur, caller, i - 1, TRUE)),
     resolve_false |-> Result(resolve_dispute(Cur, caller, i - 1, FALSE))]

C3_RacingAutoReleaseAsStated ==
    last.op = "auto_release" =>
        \A caller \in Callers :
            Result(auto_release(Cur, caller, last.index)).result
                = "MilestoneNotPendingRelease"

\* C3 amended: a successful auto_release leaves the milestone Released, having
\* paid its share once (developer part and fee); from then on, as for every
\* milestone that is not PendingRelease, auto_release by any caller fails and
\* transfers nothing: with MilestoneNotPendingRelease while the escrow is
\* Active, with EscrowCompleted once the escrow is Completed (as when that
\* release was the last one) and with EscrowCancelled once it is Cancelled.
C3_RacingAutoRelease ==
    /\ last.op = "auto_release" =>
          /\ milestones[last.index + 1].status = "Released"
          /\ Len(last.transfers) = 2
          /\ last.transfers[1].amount + last.transfers[2].amount
                = milestone_amount(total_amount, milestones[last.index + 1].bps)
    /\ initialized =>
          \A i \in 1..Len(milestones), caller \in Callers :
             milestones[i].status # "PendingRelease" =>
                LET out == Result(auto_release(Cur, caller, i - 1))
                IN  /\ NoEffect(out)
                    /\ out.result = CASE status = "Active" -> "MilestoneNotPendingRelease"
                                      [] status = "Completed" -> "EscrowCompleted"
                                      [] status = "Cancelled" -> "EscrowCancelled"

\* The auto_release that completed the escrow: the next one is answered
\* EscrowCompleted.
C3_Witness ==
    /\ last.op = "auto_release"
    /\ status = "Completed"
    /\ \A caller \in Callers :
          Result(auto_release(Cur, caller, last.index)).result = "EscrowCompleted"

\* C4: in every state of an initialized escrow 0 <= released_amount <=
\* total_amount and total_amount > 0, and no step decreases released_amount.
C4_ReleasedBounds ==
    /\ [](initialized =>
            /\ total_amount > 0
            /\ 0 <= released_amount
            /\ released_amount <= total_amount)
    /\ [][released_amount' >= released_amount]_vars

\* Everything was released, with nothing lost to rounding.
C4_Witness ==
    /\ initialized
    /\ status = "Completed"
    /\ released_amount = total_amount
    /\ last.op \in {"approve", "auto_release", "resolve_dispute"}

\* C5: the status changes only from Active to Completed and from Active to
\* Cancelled (and is set to Active by initialize); Completed and Cancelled
\* are never left.
C5_StatusMonotone ==
    [][status' # status =>
          \/ ~initialized /\ status' = "Active"
          \/ status = "Active" /\ status' \in {"Completed", "Cancelled"}]_vars

\* Time has passed on a Completed escrow, and cancel is still refused.
C5_Witness ==
    /\ status = "Completed"
    /\ last.op = "advance_time"
    /\ Result(cancel(Cur, Client)).result = "EscrowCompleted"

\* Every state-mutating call `caller` can make with these inputs, by name.
Mutating(caller, i, flag) ==
    [mark_complete |-> Result(mark_complete(Cur, caller, i, "pr1")),
     approve |-> Result(approve(Cur, caller, i)),
     auto_release |-> Result(auto_release(Cur, caller, i)),
     dispute |-> Result(dispute(Cur, caller, i)),
     resolve_dispute |-> Result(resolve_dispute(Cur, caller, i, flag)),
     cancel |-> Result(cancel(Cur, caller))]

\* The address each operation is gated to; auto_release is open to all.
Gate == [mark_complete |-> {Backend}, approve |-> {Client},
         auto_release |-> Callers, dispute |-> {Client},
         resolve_dispute |-> {Backend}, cancel |-> {Client}]

\* C6: on a Cancelled escrow each of mark_complete, approve, auto_release,
\* dispute, resolve_dispute and cancel, called by the address it is gated to,
\* fails with EscrowCancelled, and on a Completed escrow with EscrowCompleted;
\* by whomever it is called, it fails, changes no state and transfers nothing.
C6_TerminalRejects ==
    (initialized /\ status \in {"Cancelled", "Completed"}) =>
        \A caller \in Callers, i \in Indexes, flag \in BOOLEAN :
            LET r == Mutating(caller, i, flag)
            IN  \A f \in DOMAIN r :
                   /\ r[f].result # "Ok"
                   /\ NoEffect(r[f])
                   /\ caller \in Gate[f] =>
                         r[f].result = IF status = "Cancelled"
                                       THEN "EscrowCancelled" ELSE "EscrowCompleted"

\* Right after a cancel, the backend's mark_complete is answered EscrowCancelled.
C6_Witness ==
    /\ last.op = "cancel"
    /\ status = "Cancelled"
    /\ Result(mark_complete(Cur, Backend, 0, "pr1")).result = "EscrowCancelled"

\* C7 as stated: on an escrow not yet initialized, with total_amount > 0 and
\* the client authorizing and holding the funds, initialize succeeds if and
\* only if every bps is positive, there are 1 to 10 milestones and the bps
\* sum to 10000; otherwise it fails with NoMilestones, TooManyMilestones or
\* InvalidMilestoneBps.
C7_BpsInvariant ==
    LET good(ms) == /\ \A i \in 1..Len(ms) : ms[i].bps > 0
                    /\ Len(ms) >= 1
                    /\ Len(ms) <= MAX_MILESTONES
                    /\ SumBps(ms) = BPS_DENOMINATOR
    IN  /\ last.op = "initialize" => good(milestones)
        /\ ~initialized =>
              \A total \in Totals, ms \in MilestoneInputs, dw \in Windows :
                  (total > 0 /\ balance[Client] >= total) =>
                      LET out == Result(initialize(Cur, Client, total, ms, dw))
                      IN  /\ good(ms) => out.result = "Ok"
                          /\ out.result # "Ok" =>
                                out.result \in {"NoMilestones", "TooManyMilestones",
                                                "InvalidMilestoneBps"}

\* C8: the successful initialize leaves status Active, released_amount 0, the
\* balance triple (total, 0, total) and one transfer of total_amount from the
\* client to the contract; on an initialized escrow, in any status, initialize
\* with any caller and any arguments fails with AlreadyInitialized, changes no
\* stored field and moves no funds.
C8_InitializeOnce ==
    /\ last.op = "initialize" =>
          /\ status = "Active"
          /\ released_amount = 0
          /\ get_balance(Cur) = << total_amount, 0, total_amount >>
          /\ last.transfers
                = << [from |-> Client, to |-> Contract, amount |-> total_amount] >>
          /\ balance[Contract] = total_amount
    /\ initialized =>
          \A caller \in Callers, total \in Totals, b \in BpsLists, dw \in Windows :
                LET out == Result(initialize(Cur, caller, total, AllPending(b), dw))
                IN  out.result = "AlreadyInitialized" /\ NoEffect(out)

\* On an escrow that has paid a milestone, the client, still funded, tries to
\* initialize again with valid arguments and is refused.
C8_Witness ==
    /\ initialized
    /\ last.op = "approve"
    /\ balance[Client] >= 7
    /\ Result(initialize(Cur, Client, 7, AllPending(<< 10000 >>), 1)).result
          = "AlreadyInitialized"

\* C9: cancel by the client on an Active escrow fails with
\* CannotCancelWithPendingMilestones and changes nothing when some milestone
\* is PendingRelease or Disputed; otherwise it succeeds, transfers exactly
\* total_amount - released_amount to the client (no transfer when that is 0),
\* sets status to Cancelled and leaves every other stored field.
C9_Cancel ==
    /\ (initialized /\ status = "Active") =>
          LET out == Result(cancel(Cur, Client))
              remaining == total_amount - released_amount
          IN  IF \E i \in 1..Len(milestones) :
                     milestones[i].status \in {"PendingRelease", "Disputed"}
              THEN out.result = "CannotCancelWithPendingMilestones" /\ NoEffect(out)
              ELSE /\ out.result = "Ok"
                   /\ out.transfers
                         = IF remaining = 0 THEN << >>
                           ELSE << [from |-> Contract, to |-> Client,
                                    amount |-> remaining] >>
                   /\ out.env = [Cur EXCEPT !.status = "Cancelled",
                                            !.balance = out.env.balance]
                   /\ out.env.balance[Client] = balance[Client] + remaining
                   /\ out.env.balance[Contract] = balance[Contract] - remaining
    /\ last.op = "cancel" =>
          /\ status = "Cancelled"
          /\ cancel_refund = total_amount - released_amount
          /\ \A i \in 1..Len(milestones) :
                milestones[i].status \notin {"PendingRelease", "Disputed"}

\* A Disputed milestone blocks the client's cancel.
C9_Witness ==
    /\ status = "Active"
    /\ last.op = "dispute"
    /\ milestones[last.index + 1].status = "Disputed"
    /\ \A i \in 1..Len(milestones) : milestones[i].status # "PendingRelease"
    /\ Result(cancel(Cur, Client)).result = "CannotCancelWithPendingMilestones"

\* C10: on an Active escrow with dispute_window > 0, for a PendingRelease
\* milestone whose deadline completed_at + dispute_window is a u64,
\* auto_release by any caller fails with DisputeWindowOpen and releases
\* nothing while now < deadline, and succeeds (the token refusing no
\* transfer), leaving the milestone Released, when now >= deadline.
C10_AutoReleaseTiming ==
    (initialized /\ status = "Active" /\ dispute_window > 0) =>
        \A i \in 1..Len(milestones), caller \in Callers :
            (/\ milestones[i].status = "PendingRelease"
             /\ milestones[i].completed_at # None
             /\ milestones[i].completed_at[1] + dispute_window <= U64Max) =>
                LET deadline == milestones[i].completed_at[1] + dispute_window
                    out == Result(auto_release(Cur, caller, i - 1))
                IN  IF now < deadline
                    THEN out.result = "DisputeWindowOpen" /\ NoEffect(out)
                    ELSE /\ out.result = "Ok"
                         /\ out.env.milestones[i].status = "Released"
                         /\ out.env.released_amount = released_amount
                               + milestone_amount(total_amount, milestones[i].bps)

\* The developer released a milestone exactly at its deadline.
C10_Witness ==
    /\ last.op = "auto_release"
    /\ last.caller = Developer
    /\ milestones[last.index + 1].status = "Released"
    /\ now = milestones[last.index + 1].completed_at[1] + dispute_window
    /\ balance[Developer] > 0

\* C11: on an Active escrow with dispute_window > 0, dispute by the client on
\* a PendingRelease milestone whose deadline completed_at + dispute_window is
\* a u64 succeeds exactly when now < deadline, and then only sets that
\* milestone to Disputed; when now >= deadline it fails with
\* DisputeWindowClosed and the milestone stays PendingRelease; on a milestone
\* that is not PendingRelease it fails with MilestoneNotPendingRelease.
C11_DisputeTiming ==
    (initialized /\ status = "Active" /\ dispute_window > 0) =>
        \A i \in 1..Len(milestones) :
            LET out == Result(dispute(Cur, Client, i - 1))
            IN  IF milestones[i].status # "PendingRelease"
                THEN out.result = "MilestoneNotPendingRelease" /\ NoEffect(out)
                ELSE (/\ milestones[i].completed_at # None
                      /\ milestones[i].completed_at[1] + dispute_window <= U64Max) =>
                        IF now < milestones[i].completed_at[1] + dispute_window
                        THEN /\ out.result = "Ok"
                             /\ out.transfers = << >>
                             /\ out.env = [Cur EXCEPT !.milestones =
                                              SetStatus(milestones, i - 1, "Disputed")]
                        ELSE /\ out.result = "DisputeWindowClosed"
                             /\ NoEffect(out)
                             /\ out.env.milestones[i].status = "PendingRelease"

\* The client has just disputed one milestone inside its window, while the
\* window of another, completed earlier, has closed and its dispute is refused.
C11_Witness ==
    /\ status = "Active"
    /\ last.op = "dispute"
    /\ milestones[last.index + 1].status = "Disputed"
    /\ now < milestones[last.index + 1].completed_at[1] + dispute_window
    /\ \E i \in 1..Len(milestones) :
          /\ milestones[i].status = "PendingRelease"
          /\ milestones[i].completed_at # None
          /\ now >= milestones[i].completed_at[1] + dispute_window
          /\ Result(dispute(Cur, Client, i - 1)).result = "DisputeWindowClosed"

\* C12: with dispute_window = 0, in every state and at every time,
\* auto_release and dispute succeed for no caller and no index and leave no
\* effect; on a PendingRelease milestone auto_release by any caller fails with
\* ManualApprovalRequired and dispute by the client with NoDisputeWindow; and
\* the only step that changes a PendingRelease milestone is the client's
\* approve of it, which leaves it Released.
C12_ManualApprovalOnly ==
    /\ []((initialized /\ dispute_window = 0) =>
            /\ \A caller \in Callers, i \in Indexes :
                  LET a == Result(auto_release(Cur, caller, i))
                      d == Result(dispute(Cur, caller, i))
                  IN  /\ a.result # "Ok" /\ NoEffect(a)
                      /\ d.result # "Ok" /\ NoEffect(d)
            /\ \A i \in 1..Len(milestones) :
                  milestones[i].status = "PendingRelease" =>
                      /\ \A caller \in Callers :
                            Result(auto_release(Cur, caller, i - 1)).result
                                = "ManualApprovalRequired"
                      /\ Result(dispute(Cur, Client, i - 1)).result = "NoDisputeWindow")
    /\ [][(initialized /\ dispute_window = 0) =>
             \A i \in 1..Len(milestones) :
                (milestones[i].status = "PendingRelease"
                    /\ milestones'[i] # milestones[i]) =>
                   /\ last'.op = "approve"
                   /\ last'.caller = Client
                   /\ last'.index = i - 1
                   /\ milestones'[i].status = "Released"]_vars

\* Without a dispute window and after time has passed, the client approved
\* one milestone while another stays PendingRelease, refused by auto_release
\* and by dispute.
C12_Witness ==
    /\ dispute_window = 0
    /\ last.op = "approve"
    /\ \E i \in 1..Len(milestones) :
          /\ milestones[i].status = "PendingRelease"
          /\ milestones[i].completed_at # None
          /\ now > milestones[i].completed_at[1]
          /\ Result(auto_release(Cur, Developer, i - 1)).result = "ManualApprovalRequired"
          /\ Result(dispute(Cur, Client, i - 1)).result = "NoDisputeWindow"

\* C13: while a milestone is Disputed (the escrow is then Active), approve by
\* the client and auto_release by any caller on it fail with
\* MilestoneNotPendingRelease, and for every caller they fail, change nothing
\* and transfer nothing, whatever the clock; the only successful call aimed at
\* that milestone, and the only step that changes it, is resolve_dispute by
\* the backend.
C13_DisputedFrozen ==
    /\ [](\A i \in 1..Len(milestones) :
            milestones[i].status = "Disputed" =>
               /\ status = "Active"
               /\ Result(approve(Cur, Client, i - 1)).result = "MilestoneNotPendingRelease"
               /\ \A caller \in Callers :
                     LET a == Result(approve(Cur, caller, i - 1))
                         r == Result(auto_release(Cur, caller, i - 1))
                     IN  /\ a.result # "Ok" /\ NoEffect(a)
                         /\ r.result = "MilestoneNotPendingRelease" /\ NoEffect(r))
    /\ [][\A i \in 1..Len(milestones) :
             (/\ milestones[i].status = "Disputed"
              /\ \/ milestones'[i] # milestones[i]
                 \/ last' # last /\ last'.index = i - 1) =>
                /\ last'.op = "resolve_dispute"
                /\ last'.caller = Backend
                /\ last'.index = i - 1
                /\ milestones'[i].status \in {"Released", "Refunded"}]_vars

\* A milestone disputed in time is still Disputed after its deadline has
\* passed: approve and auto_release are refused.
C13_Witness ==
    /\ last.op = "advance_time"
    /\ dispute_window > 0
    /\ \E i \in 1..Len(milestones) :
          /\ milestones[i].status = "Disputed"
          /\ milestones[i].pr_url = Some("pr1")
          /\ now >= milestones[i].completed_at[1] + dispute_window
          /\ Result(approve(Cur, Client, i - 1)).result = "MilestoneNotPendingRelease"
          /\ Result(auto_release(Cur, Backend, i - 1)).result = "MilestoneNotPendingRelease"

\* C14: on an Active escrow, whatever dispute_window and the clock are,
\* approve by the client on a PendingRelease milestone succeeds at once (the
\* token refusing no transfer): the
\* milestone is Released, its split is added to released_amount and leaves
\* the contract, flagged non-automatic; on a milestone in any other status it
\* fails with MilestoneNotPendingRelease and changes nothing.
C14_ApproveShortCircuits ==
    (initialized /\ status = "Active") =>
        \A i \in 1..Len(milestones) :
            LET out == Result(approve(Cur, Client, i - 1))
                amount == milestone_amount(total_amount, milestones[i].bps)
            IN  IF milestones[i].status = "PendingRelease"
                THEN /\ out.result = "Ok"
                     /\ out.env.milestones[i].status = "Released"
                     /\ out.env.released_amount = released_amount + amount
                     /\ out.env.balance[Contract] = balance[Contract] - amount
                     /\ out.events[1] = Event("release", i - 1,
                                              amount - TruncDiv(amount, FEE_DIVISOR), FALSE)
                ELSE out.result = "MilestoneNotPendingRelease" /\ NoEffect(out)

\* The client approved a milestone while its dispute window was still open.
C14_Witness ==
    /\ last.op = "approve"
    /\ dispute_window > 0
    /\ milestones[last.index + 1].status = "Released"
    /\ milestones[last.index + 1].completed_at # None
    /\ now < milestones[last.index + 1].completed_at[1] + dispute_window
    /\ last.transfers[1].amount > 0

\* C15: resolve_dispute(index, false) by the backend on a Disputed milestone
\* succeeds (the token refusing no transfer) with exactly one transfer, of split(total_amount, bps) with no fee
\* taken off, from the contract to the client; developer and backend receive
\* nothing; the milestone becomes Refunded, its other fields kept;
\* released_amount grows by that same amount; and completion is re-evaluated:
\* the escrow is Completed afterwards exactly when every milestone is then
\* Released or Refunded.
C15_RefundNoFee ==
    initialized =>
        \A i \in 1..Len(milestones) :
            milestones[i].status = "Disputed" =>
                LET out == Result(resolve_dispute(Cur, Backend, i - 1, FALSE))
                    amount == milestone_amount(total_amount, milestones[i].bps)
                IN  /\ out.result = "Ok"
                    /\ out.transfers
                          = << [from |-> Contract, to |-> Client, amount |-> amount] >>
                    /\ out.env.balance =
                          [a \in Addresses |->
                              CASE a = Client -> balance[a] + amount
                                [] a = Contract -> balance[a] - amount
                                [] OTHER -> balance[a]]
                    /\ out.env.milestones
                          = [milestones EXCEPT ![i].status = "Refunded"]
                    /\ out.env.released_amount = released_amount + amount
                    /\ out.env.status = IF all_done(out.env.milestones)
                                        THEN "Completed" ELSE status
                    /\ out.events[1] = Event("resolved", i - 1, amount, FALSE)

\* The backend resolved a dispute for the client: one transfer to the client,
\* of a share large enough for a 1% fee to have shown.
C15_Witness ==
    /\ last.op = "resolve_dispute"
    /\ milestones[last.index + 1].status = "Refunded"
    /\ Len(last.transfers) = 1
    /\ last.transfers[1].to = Client
    /\ last.transfers[1].amount >= FEE_DIVISOR
    /\ last.transfers[1].amount
          = milestone_amount(total_amount, milestones[last.index + 1].bps)
    /\ balance[Backend] = 0

\* C16: on an Active escrow, resolve_dispute(index, true) by the backend on a
\* Disputed milestone succeeds (the token refusing no transfer) and leaves the storage and balances, and makes the
\* transfers, that approve by the client would on the same state with that
\* milestone PendingRelease: the milestone ends Released, not PendingRelease,
\* the developer receives amount - fee, the backend fee, released_amount
\* grows by amount, and the release event is flagged non-automatic; on a
\* milestone that is not Disputed it fails with MilestoneNotDisputed and
\* changes nothing.
C16_DeveloperWins ==
    (initialized /\ status = "Active") =>
        \A i \in 1..Len(milestones) :
            LET out == Result(resolve_dispute(Cur, Backend, i - 1, TRUE))
                e1 == [Cur EXCEPT !.milestones[i].status = "PendingRelease"]
                ap == Invoke(e1, approve(e1, Client, i - 1))
                amount == milestone_amount(total_amount, milestones[i].bps)
                fee == TruncDiv(amount, FEE_DIVISOR)
            IN  IF milestones[i].status = "Disputed"
                THEN /\ out.result = "Ok" /\ ap.result = "Ok"
                     /\ out.env = ap.env
                     /\ out.transfers = ap.transfers
                     /\ out.env.milestones = [milestones EXCEPT ![i].status = "Released"]
                     /\ out.env.balance[Developer] = balance[Developer] + (amount - fee)
                     /\ out.env.balance[Backend] = balance[Backend] + fee
                     /\ out.env.balance[Client] = balance[Client]
                     /\ out.env.released_amount = released_amount + amount
                     /\ out.events[1] = Event("release", i - 1, amount - fee, FALSE)
                     /\ \A k \in 1..Len(out.events) : out.events[k].name # "resolved"
                ELSE out.result = "MilestoneNotDisputed" /\ NoEffect(out)

\* The backend resolved a dispute for the developer, who was paid the share
\* less a fee the backend received.
C16_Witness ==
    /\ last.op = "resolve_dispute"
    /\ last.caller = Backend
    /\ milestones[last.index + 1].status = "Released"
    /\ Len(last.transfers) = 2
    /\ last.transfers[1].to = Developer
    /\ last.transfers[2].to = Backend
    /\ last.transfers[2].amount > 0
    /\ last.events[1].auto = FALSE

\* C17: every step that makes a milestone Released computes
\* amount = total_amount * bps / 10000 and fee = amount / 100, both truncating,
\* makes exactly two transfers out of the contract, amount - fee to the
\* developer and fee to the backend, which sum to amount, and increases
\* released_amount by the full amount.
C17_ReleaseArithmetic ==
    [][\A i \in 1..Len(milestones) :
          (milestones[i].status # "Released" /\ milestones'[i].status = "Released") =>
             LET amount == (total_amount * milestones[i].bps) \div 10000
                 fee == amount \div 100
             IN  /\ last'.op \in {"approve", "auto_release", "resolve_dispute"}
                 /\ last'.index = i - 1
                 /\ last'.transfers
                       = << [from |-> Contract, to |-> Developer, amount |-> amount - fee],
                            [from |-> Contract, to |-> Backend, amount |-> fee] >>
                 /\ last'.transfers[1].amount + last'.transfers[2].amount = amount
                 /\ balance'[Developer] = balance[Developer] + (amount - fee)
                 /\ balance'[Backend] = balance[Backend] + fee
                 /\ balance'[Contract] = balance[Contract] - amount
                 /\ balance'[Client] = balance[Client]
                 /\ released_amount' = released_amount + amount]_vars

\* A release in which both divisions truncated and the fee is not zero.
C17_Witness ==
    /\ last.op \in {"approve", "auto_release", "resolve_dispute"}
    /\ milestones[last.index + 1].status = "Released"
    /\ Len(last.transfers) = 2
    /\ (total_amount * milestones[last.index + 1].bps) % 10000 # 0
    /\ (last.transfers[1].amount + last.transfers[2].amount) % 100 # 0
    /\ last.transfers[2].amount > 0
    /\ released_amount >= last.transfers[1].amount + last.transfers[2].amount

\* C18 as stated: in every state of an initialized escrow, status is
\* Completed if and only if every milestone is Released or Refunded; and the
\* step that makes the last milestone terminal leaves status Completed.
C18_CompletionDetection ==
    /\ [](initialized => (status = "Completed" <=> all_done(milestones)))
    /\ [][(initialized /\ ~all_done(milestones) /\ all_done(milestones'))
             => status' = "Completed"]_vars

\* The remaining-time view of milestone i (1-based) in environment e.
Remaining(e, i) == time_until_auto_release(e, i - 1)

\* The window of milestone i is running in e: PendingRelease, a window
\* exists, and now is before the deadline completed_at + dispute_window.
WindowRunning(e, i) ==
    /\ e.milestones[i].status = "PendingRelease"
    /\ e.dispute_window > 0
    /\ e.milestones[i].completed_at # None
    /\ e.milestones[i].completed_at[1] + e.dispute_window <= U64Max
    /\ e.now < e.milestones[i].completed_at[1] + e.dispute_window

\* C19 as stated: while the window of a PendingRelease milestone is running,
\* time_until_auto_release returns deadline - now, which lies in
\* (0, dispute_window] and strictly decreases as now advances; it returns
\* exactly 0 once now >= deadline, and also 0 whenever the milestone is not
\* PendingRelease or dispute_window = 0.
C19_TimeUntilAutoRelease ==
    /\ [](initialized =>
            \A i \in 1..Len(milestones) :
               LET r == Remaining(Cur, i)
                   m == milestones[i]
               IN  /\ WindowRunning(Cur, i) =>
                         /\ r.result = "Ok"
                         /\ r.value = m.completed_at[1] + dispute_window - now
                         /\ r.value > 0
                         /\ r.value <= dispute_window
                   /\ (/\ m.status = "PendingRelease" /\ dispute_window > 0
                        /\ m.completed_at # None
                        /\ m.completed_at[1] + dispute_window <= U64Max
                        /\ now >= m.completed_at[1] + dispute_window) =>
                         r = [result |-> "Ok", value |-> 0]
                   /\ (m.status # "PendingRelease" \/ dispute_window = 0) =>
                         r = [result |-> "Ok", value |-> 0])
    /\ [][\A i \in 1..Len(milestones) :
             (WindowRunning(Cur, i) /\ now' > now) =>
                Remaining(Cur, i)'.value < Remaining(Cur, i).value]_vars

\* Every public state-changing call `caller` can make in environment e, as the
\* contract code runs it, before the host settles the outcome.
Calls(e, caller, i, flag) ==
    [initialize |-> initialize(e, caller, 7, AllPending(<< 10000 >>), 1),
     mark_complete |-> mark_complete(e, caller, i, "pr1"),
     approve |-> approve(e, caller, i),
     auto_release |-> auto_release(e, caller, i),
     dispute |-> dispute(e, caller, i),
     resolve_dispute |-> resolve_dispute(e, caller, i, flag),
     cancel |-> cancel(e, caller)]

Persisted == << initialized, status, total_amount, released_amount,
               dispute_window, milestones, balance >>

Transitions ==
    { << "Pending", "PendingRelease" >>, << "PendingRelease", "Released" >>,
      << "PendingRelease", "Disputed" >>, << "Disputed", "Released" >>,
      << "Disputed", "Refunded" >> }

\* C21: in every step, each stored milestone keeps its status or changes it
\* along Pending -> PendingRelease, PendingRelease -> Released,
\* PendingRelease -> Disputed, Disputed -> Released or Disputed -> Refunded;
\* so Released and Refunded are never left and no milestone returns to
\* Pending; the list keeps its length.
C21_MilestoneStateMachine ==
    [][initialized =>
          /\ Len(milestones') = Len(milestones)
          /\ \A i \in 1..Len(milestones) :
                \/ milestones'[i].status = milestones[i].status
                \/ << milestones[i].status, milestones'[i].status >> \in Transitions]_vars

\* A milestone went all the way: marked complete, disputed, refunded.
C21_Witness ==
    /\ last.op = "resolve_dispute"
    /\ milestones[last.index + 1].status = "Refunded"
    /\ milestones[last.index + 1].pr_url = Some("pr1")
    /\ \E i \in 1..Len(milestones) : milestones[i].status = "Released"

\* C22: mark_complete by the backend on an Active escrow fails with
\* MilestoneNotFound when the index is not below the milestone count and with
\* MilestoneAlreadyCompleted when the milestone is not Pending, changing
\* nothing (so a second mark_complete never resets completed_at); otherwise
\* it succeeds, sets that milestone to PendingRelease with the given pr_url
\* and completed_at equal to the clock, moves no funds and leaves every other
\* milestone and stored field as it was.
C22_MarkComplete ==
    (initialized /\ status = "Active") =>
        \A i \in Indexes :
            LET out == Result(mark_complete(Cur, Backend, i, "pr1"))
            IN  IF i >= Len(milestones)
                THEN out.result = "MilestoneNotFound" /\ NoEffect(out)
                ELSE IF milestones[i + 1].status # "Pending"
                THEN /\ out.result = "MilestoneAlreadyCompleted"
                     /\ NoEffect(out)
                     /\ out.env.milestones[i + 1].completed_at
                           = milestones[i + 1].completed_at
                ELSE /\ out.result = "Ok"
                     /\ out.transfers = << >>
                     /\ out.env = [Cur EXCEPT !.milestones[i + 1] =
                                      [bps |-> milestones[i + 1].bps,
                                       status |-> "PendingRelease",
                                       pr_url |-> << "pr1" >>,
                                       completed_at |-> << now >>]]

\* The backend marked a milestone complete after the clock had moved; a
\* second mark_complete on it is refused, another milestone is still Pending
\* and an index past the end is not found.
C22_Witness ==
    /\ last.op = "mark_complete"
    /\ now > 0
    /\ status = "Active"
    /\ milestones[last.index + 1].completed_at = << now >>
    /\ Result(mark_complete(Cur, Backend, last.index, "pr1")).result
          = "MilestoneAlreadyCompleted"
    /\ \E i \in 1..Len(milestones) : milestones[i].status = "Pending"
    /\ Result(mark_complete(Cur, Backend, Len(milestones), "pr1")).result
          = "MilestoneNotFound"

RECURSIVE SumSplits(_, _)
SumSplits(ms, total) ==
    IF ms = << >> THEN 0
    ELSE milestone_amount(total, ms[1].bps) + SumSplits(Tail(ms), total)

\* C23 as stated: for the total and the n milestones initialize accepted
\* (bps summing to 10000), total_amount minus the sum of the truncated splits
\* total_amount * bps / 10000 is between 0 and n-1; hence when every milestone
\* is Released or Refunded, released_amount is at least total_amount - (n-1)
\* and at most total_amount.
C23_RoundingDrift ==
    initialized =>
        /\ total_amount - SumSplits(milestones, total_amount) >= 0
        /\ total_amount - SumSplits(milestones, total_amount) <= Len(milestones) - 1
        /\ all_done(milestones) =>
              /\ released_amount >= total_amount - (Len(milestones) - 1)
              /\ released_amount <= total_amount

\* C24 as stated: in every state, for every stored milestone, pr_url is
\* present if and only if completed_at is present, and both are absent exactly
\* while the milestone is Pending; and once set, neither value changes.
C24_PairedEvidence ==
    /\ [](\A i \in 1..Len(milestones) :
            /\ milestones[i].pr_url # None <=> milestones[i].completed_at # None
            /\ milestones[i].pr_url = None <=> milestones[i].status = "Pending")
    /\ [][\A i \in 1..Len(milestones) :
             /\ milestones[i].pr_url # None =>
                   milestones'[i].pr_url = milestones[i].pr_url
             /\ milestones[i].completed_at # None =>
                   milestones'[i].completed_at = milestones[i].completed_at]_vars

\* C25 as stated: overflow is an error, never a wrap.  When completed_at +
\* dispute_window exceeds the unsigned 64-bit range, auto_release, dispute and
\* time_until_auto_release fail with Overflow; and when total_amount * bps
\* exceeds the signed 128-bit range, the release or the refund of that
\* milestone fails with Overflow.  The code checks the deadline sum but
\* multiplies the amount unchecked: the call panics or pays a wrapped amount.
C25_OverflowIsError ==
    status = "Active" =>
        \A i \in 1..Len(milestones) :
           LET m == milestones[i]
           IN  /\ (/\ m.status = "PendingRelease" /\ dispute_window > 0
                    /\ m.completed_at # None
                    /\ m.completed_at[1] + dispute_window > U64Max) =>
                     /\ \A c \in Addresses :
                           Result(auto_release(Cur, c, i - 1)).result = "Overflow"
                     /\ Result(dispute(Cur, Client, i - 1)).result = "Overflow"
                     /\ Remaining(Cur, i).result = "Overflow"
               /\ mul_overflows(total_amount, m.bps) =>
                     /\ m.status = "PendingRelease" =>
                           Result(approve(Cur, Client, i - 1)).result = "Overflow"
                     /\ m.status = "Disputed" =>
                           \A flag \in BOOLEAN :
                              Result(resolve_dispute(Cur, Backend, i - 1, flag)).result
                                 = "Overflow"

\* The gated operations: all but auto_release, which needs no authorization.
Gated == DOMAIN Gate \ {"auto_release"}

\* The outcome of the gated operation f called by `caller`.
GatedCall(f, caller, i, flag) ==
    CASE f = "mark_complete" -> Result(mark_complete(Cur, caller, i, "pr1"))
      [] f = "approve" -> Result(approve(Cur, caller, i))
      [] f = "dispute" -> Result(dispute(Cur, caller, i))
      [] f = "resolve_dispute" -> Result(resolve_dispute(Cur, caller, i, flag))
      [] f = "cancel" -> Result(cancel(Cur, caller))

\* The error assert_active answers on the current, terminal, escrow.
TerminalError == IF status = "Cancelled" THEN "EscrowCancelled" ELSE "EscrowCompleted"

\* C26 as stated: each gated operation checks the escrow status before the
\* authorization, so on a Completed or Cancelled escrow a caller who is not
\* the required identity is answered with EscrowCompleted / EscrowCancelled.
C26_StatusBeforeAuth ==
    (initialized /\ status \in {"Cancelled", "Completed"}) =>
        \A f \in Gated : \A caller \in Callers \ Gate[f] :
            \A i \in Indexes, flag \in BOOLEAN :
               GatedCall(f, caller, i, flag).result = TerminalError

\* C26, amended: each gated operation checks the authorization before the
\* escrow status.  On an initialized escrow, whatever its status, a caller who
\* is not the required identity gets the authorization abort and nothing
\* changes; on a Completed or Cancelled escrow only the required identity is
\* answered with EscrowCompleted / EscrowCancelled.
C26_AuthBeforeStatus ==
    initialized =>
        \A f \in Gated : \A i \in Indexes, flag \in BOOLEAN :
            /\ \A caller \in Callers \ Gate[f] :
                  GatedCall(f, caller, i, flag) = Err(Cur, "AuthFailed")
            /\ status \in {"Cancelled", "Completed"} =>
                  \A caller \in Gate[f] :
                     GatedCall(f, caller, i, flag) = Err(Cur, TerminalError)

\* A Completed escrow on which the developer's approve is an authorization
\* abort while the client's is answered with EscrowCompleted.
C26_Witness ==
    /\ initialized /\ status = "Completed"
    /\ Result(approve(Cur, Developer, 0)).result = "AuthFailed"
    /\ Result(approve(Cur, Client, 0)).result = "EscrowCompleted"

\* How many completion notifications a sequence of events holds.
Done(events) == Cardinality({ k \in 1..Len(events) : events[k].name = "done" })

\* C27 as stated: the completion check is idempotent.  Run on an escrow that
\* is already Completed it changes no state and emits no notification, so no
\* call (resolve_dispute(index, true) on the last unresolved milestone
\* included) emits the completion notification more than once, and the call
\* that takes the escrow from Active to Completed emits it exactly once.
C27_CompletionIdempotent ==
    /\ [](status = "Completed" =>
            /\ check_completion(Cur).env = Cur
            /\ check_completion(Cur).events = << >>)
    /\ [](Done(last.events) <= 1)
    /\ [][(status = "Active" /\ status' = "Completed") =>
             Done(last'.events) = 1]_vars

\* C28: no in-flight milestone is stranded by a terminal escrow.  If any
\* milestone is PendingRelease or Disputed the escrow is Active; when the
\* escrow is Cancelled every milestone is Pending, Released or Refunded, and
\* when it is Completed every milestone is Released or Refunded.
C28_NoStrandedMilestone ==
    /\ (\E i \in 1..Len(milestones) :
            milestones[i].status \in {"PendingRelease", "Disputed"}) =>
          status = "Active"
    /\ status = "Cancelled" =>
          \A i \in 1..Len(milestones) :
             milestones[i].status \in {"Pending", "Released", "Refunded"}
    /\ status = "Completed" =>
          \A i \in 1..Len(milestones) :
             milestones[i].status \in {"Released", "Refunded"}

\* A cancel has just closed an escrow that had paid one milestone and still
\* held a Pending one.
C28_Witness ==
    /\ status = "Cancelled" /\ last.op = "cancel"
    /\ \E i, j \in 1..Len(milestones) :
          milestones[i].status = "Released" /\ milestones[j].status = "Pending"

\* What the contract has paid out so far to developer, backend and client:
\* their holdings beyond what they held once the deposit was pulled.
PaidOut ==
    balance[Developer] + balance[Backend]
        + (balance[Client] - (ClientMint - total_amount))

\* C29: custody solvency.  The contract holding only the deposit pulled by
\* initialize, while the escrow is Active or Completed its custody equals
\* total_amount - released_amount and is never negative; once cancelled the
\* custody is 0; what was paid out to developer, backend and client together
\* never exceeds total_amount; so no call makes the contract issue a transfer
\* that fails for insufficient balance.
C29_CustodySolvency ==
    initialized =>
        /\ status \in {"Active", "Completed"} =>
              /\ balance[Contract] = total_amount - released_amount
              /\ balance[Contract] >= 0
        /\ status = "Cancelled" => balance[Contract] = 0
        /\ PaidOut >= 0 /\ PaidOut <= total_amount
        /\ \A caller \in Callers, i \in Indexes :
              /\ approve(Cur, caller, i).result # "TransferFailed"
              /\ auto_release(Cur, caller, i).result # "TransferFailed"
              /\ \A flag \in BOOLEAN :
                    resolve_dispute(Cur, caller, i, flag).result # "TransferFailed"
              /\ cancel(Cur, caller).result # "TransferFailed"

\* A cancel has just refunded the rest of an escrow that had already paid a
\* milestone, leaving no custody.
C29_Witness ==
    /\ status = "Cancelled" /\ last.op = "cancel"
    /\ released_amount > 0 /\ cancel_refund > 0
    /\ balance[Contract] = 0

\* Milestone i is PendingRelease on an Active escrow with a dispute window,
\* a recorded completion time and a deadline that fits 64 bits.
Timed(i) ==
    /\ status = "Active"
    /\ milestones[i].status = "PendingRelease"
    /\ dispute_window > 0
    /\ milestones[i].completed_at # None
    /\ milestones[i].completed_at[1] + dispute_window <= U64Max

\* The client's dispute of milestone i would succeed now.
CanDispute(i) == Result(dispute(Cur, Client, i - 1)).result = "Ok"

\* auto_release of milestone i, called by `caller`, would succeed now.
CanAutoRelease(caller, i) == Result(auto_release(Cur, caller, i - 1)).result = "Ok"

\* C30: dispute and auto_release are mutually exclusive in time.  For a
\* PendingRelease milestone with dispute_window > 0 whose deadline does not
\* overflow, at every clock value exactly one of them is enabled: dispute when
\* now < completed_at + dispute_window, auto_release (by anyone) when
\* now >= completed_at + dispute_window, the boundary included; and once
\* auto_release is possible for a milestone, the client can never dispute it
\* again.
C30_DisputeXorAutoRelease ==
    /\ [](\A i \in 1..Len(milestones) :
             Timed(i) =>
                LET deadline == milestones[i].completed_at[1] + dispute_window
                IN  /\ CanDispute(i) <=> now < deadline
                    /\ \A c \in Callers : CanAutoRelease(c, i) <=> now >= deadline
                    /\ \A c \in Callers : CanDispute(i) <=> ~CanAutoRelease(c, i))
    /\ [][vars' # vars =>
             \A i \in 1..Len(milestones) :
                (\E c \in Callers : CanAutoRelease(c, i)) => ~CanDispute(i)']_vars

\* The clock stands exactly on the deadline of a PendingRelease milestone:
\* auto_release is enabled and the dispute is answered DisputeWindowClosed.
C30_Witness ==
    \E i \in 1..Len(milestones) :
       /\ Timed(i)
       /\ milestones[i].completed_at[1] < now
       /\ now = milestones[i].completed_at[1] + dispute_window
       /\ CanAutoRelease(Developer, i)
       /\ Result(dispute(Cur, Client, i - 1)).result = "DisputeWindowClosed"

\* The positions a milestone can have in the lists initialize accepts here.
Positions == 1..2

\* The deadline completed_at + dispute_window of milestone i.
Deadline(i) == milestones[i].completed_at[1] + dispute_window

\* Milestone i exists, is PendingRelease with a window, and the clock has
\* reached its deadline.
Ripe(i) == i <= Len(milestones) /\ Timed(i) /\ now >= Deadline(i)

\* Milestone i exists and its status is one of S.
StatusIn(i, S) == i <= Len(milestones) /\ milestones[i].status \in S

\* C31: trustless release liveness.  With dispute_window > 0, once a milestone
\* is PendingRelease and the clock has reached completed_at + dispute_window,
\* auto_release is enabled for every caller and stays enabled until the
\* milestone leaves PendingRelease, whatever the client and the backend do;
\* so, the clock moving and auto_release being weakly fair, such a milestone
\* is eventually Released, and every PendingRelease milestone whose deadline
\* the clock can reach is eventually Released unless it is disputed first.
C31_TrustlessRelease ==
    /\ [](\A i \in 1..Len(milestones) :
             Ripe(i) => \A c \in Callers : CanAutoRelease(c, i))
    /\ [][vars' # vars =>
             \A i \in 1..Len(milestones) :
                (Ripe(i) /\ milestones'[i].status = "PendingRelease") =>
                   \A c \in Callers : CanAutoRelease(c, i)']_vars
    /\ \A i \in Positions :
          Ripe(i) ~> StatusIn(i, {"Released"})
    /\ \A i \in Positions :
          (i <= Len(milestones) /\ Timed(i) /\ Deadline(i) <= MaxTime)
             ~> StatusIn(i, {"Released", "Disputed"})

\* The developer, who holds no role in the escrow, has just released a
\* milestone through auto_release after its deadline.
C31_Witness ==
    /\ last.op = "auto_release" /\ last.caller = Developer
    /\ dispute_window > 0
    /\ milestones[last.index + 1].status = "Released"
    /\ milestones[last.index + 1].completed_at # None
    /\ now >= milestones[last.index + 1].completed_at[1] + dispute_window


====
